---- MODULE Spec2Model ----
(***************************************************************************)
(* Credential vault and OAuth token broker (auth-manager-svc).             *)
(*                                                                         *)
(* The vault table, the vault repository and service, the bearer-token     *)
(* gate, the state-token service and the eight endpoint handlers, as a     *)
(* state machine.  Every request runs as a task with its own database      *)
(* session (one transaction): a task's pending write is private until the  *)
(* task finishes, when it is committed (success) or rolled back (error).   *)
(* A task's step is one database statement or one call of the identity     *)
(* provider, together with the local code around it.                       *)
(***************************************************************************)
EXTENDS Integers, FiniteSets, Sequences, TLC

\* ------------------------------------------------------------------ bounds
MaxRows == 3        \* ids the vault ever hands out (uuid4 never repeats)
MaxOps  == 2        \* requests served in one behaviour

\* ------------------------------------------------------------------ values
Procs    == {"p1", "p2"}            \* concurrent request tasks
Users    == {"u1", "u2"}            \* uuid4 subjects
Sessions == {"s1", "s2"}            \* IdP session ids
Tokens   == {"t1", "t2"}            \* plaintext refresh / offline tokens
IVs      == {"iv1"}                 \* what generate_iv() returns
Ids      == 1..MaxRows
None     == "None"
NoId     == 0

OFFLINE == "offline"
REFRESH == "refresh"
TokenType == {OFFLINE, REFRESH}

Secret    == "secret"               \* settings.state_token.secret
OtherKey  == "other"                \* any other signing key

\* ------------------------------------------------------------- encryption
\* EncryptionService: a ciphertext opens only under the iv it was made with.
NoCipher == [pt |-> None, iv |-> None]
encrypt_token(token, iv) == [pt |-> token, iv |-> iv]
decrypt_token(cipher, iv) == IF cipher.iv = iv THEN cipher.pt ELSE "DecryptError"
hash_token(token) == <<"sha256", token>>

\* ------------------------------------------------------------------- rows
NoAttrs == [key |-> None, from |-> NoId, session_id |-> None]
AttrFrom(id) == [key |-> "from", from |-> id, session_id |-> None]
AttrSession(s) == [key |-> "session_id", from |-> NoId, session_id |-> s]

NoRow == [token_type |-> None]
IsRow(r) == r.token_type # None

\* AuthVault(...) as VaultRepository.create fills it
NewRow(user_id, token_type, encrypted_token, iv, token_hash, session_state_id, attributes) ==
    [ user_id          |-> user_id,
      token_type       |-> token_type,
      encrypted_token  |-> encrypted_token,
      iv               |-> iv,
      token_hash       |-> token_hash,
      session_state_id |-> session_state_id,
      attributes       |-> attributes ]

EmptyVault == [i \in Ids |-> NoRow]
RowIds(v) == {i \in Ids : IsRow(v[i])}

\* ------------------------------------------------------------- repository
\* Query results: one row, no row, or the ORM's exceptions.
One(id)  == [kind |-> "one", id |-> id]
Nothing  == [kind |-> "none", id |-> NoId]
Raised(e) == [kind |-> e, id |-> NoId]

TypeMatches(r, token_type) == token_type = None \/ r.token_type = token_type

\* Result.scalar_one(): exactly one row, else NoResultFound / MultipleResultsFound
ScalarOne(ids) ==
    IF ids = {} THEN Raised("NoResultFound")
    ELSE IF Cardinality(ids) > 1 THEN Raised("MultipleResultsFound")
    ELSE One(CHOOSE i \in ids : TRUE)

\* Result.scalar_one_or_none(): None for no row, still raises for several
ScalarOneOrNone(ids) ==
    IF ids = {} THEN Nothing
    ELSE IF Cardinality(ids) > 1 THEN Raised("MultipleResultsFound")
    ELSE One(CHOOSE i \in ids : TRUE)

retrieve(v, token_id) ==
    ScalarOne({i \in RowIds(v) : i = token_id})

\* faulty variant: the query finds no row
retrieve_by_user_id_none(v, user_id, token_type) == Nothing

\* faulty variant: the token_type filter is left out of the query
retrieve_by_user_id_any_type(v, user_id, token_type) ==
    ScalarOneOrNone({i \in RowIds(v) : v[i].user_id = user_id})

retrieve_by_user_id(v, user_id, token_type) ==
    ScalarOneOrNone({i \in RowIds(v) :
        v[i].user_id = user_id /\ TypeMatches(v[i], token_type)})

repo_retrieve_or_raise_by_session_state_id(v, session_state_id, token_type) ==
    ScalarOne({i \in RowIds(v) :
        v[i].session_state_id = session_state_id /\ TypeMatches(v[i], token_type)})

repo_retrieve_by_session_state_id(v, session_state_id, token_type) ==
    ScalarOneOrNone({i \in RowIds(v) :
        v[i].session_state_id = session_state_id /\ TypeMatches(v[i], token_type)})

\* faulty variant: the exclude_id filter is left out of the query
get_all_without_exclude(v, session_state_id, exclude_id, token_type) ==
    {i \in RowIds(v) :
        v[i].session_state_id = session_state_id /\ TypeMatches(v[i], token_type)}

get_all_by_session_state_id(v, session_state_id, exclude_id, token_type) ==
    {i \in RowIds(v) :
        /\ v[i].session_state_id = session_state_id
        /\ (exclude_id # NoId => i # exclude_id)
        /\ TypeMatches(v[i], token_type)}

\* ----------------------------------------------------------------- errors
DomainClasses == {"AuthManagerError", "KeycloakError", "InvalidStateTokenError",
                  "TokenNotFoundError", "UnauthorizedError", "TokenNotActiveError",
                  "ValidationError", "InvalidRequestError", "DatabaseError"}

\* the default `code` of each exception class
DefaultCode(cls) ==
    CASE cls = "AuthManagerError"       -> "error"
      [] cls = "KeycloakError"          -> "keycloak_error"
      [] cls = "InvalidStateTokenError" -> "invalid_ack_state"
      [] cls = "TokenNotFoundError"     -> "token_not_found"
      [] cls = "UnauthorizedError"      -> "unauthorized"
      [] cls = "TokenNotActiveError"    -> "token_not_active"
      [] cls = "ValidationError"        -> "validation_error"
      [] cls = "InvalidRequestError"    -> "invalid_request"
      [] cls = "DatabaseError"          -> "database_error"
      [] OTHER                          -> None

\* details: "none", or "provider" for the provider's status code and raw body
ErrWith(cls, message, code, details) ==
    [cls |-> cls, message |-> message, code |-> code, details |-> details]
Err(cls, message) == ErrWith(cls, message, DefaultCode(cls), "none")
\* an exception that is no AuthManagerError (ORM, library, interpreter)
Native(cls) == ErrWith(cls, cls, None, "none")
NoErr == ErrWith(None, None, None, "none")
IsDomain(e) == e.cls \in DomainClasses

\* errors_mapping.get(exc.code, 500) and the four exception handlers
StatusOf(code) ==
    CASE code \in {"keycloak_error", "keycloak_callback_error", "database_error"} -> 502
      [] code \in {"unauthorized", "token_not_active"} -> 401
      [] code = "token_not_found" -> 404
      [] code \in {"validation_error", "invalid_request", "invalid_ack_state"} -> 400
      [] OTHER -> 500

\* Err(error=exc.message, code=exc.code, reason=exc.details.get("reason"),
\* details=exc.details): no details dict of the service has a "reason" key
auth_manager_error_handler(e) ==
    [status |-> StatusOf(e.code), code |-> e.code, error |-> e.message,
     reason |-> None, details |-> e.details]

\* Err(error="Internal server error", code=internal_error, reason=str(exc))
generic_exception_handler(e) ==
    [status |-> 500, code |-> "internal_error", error |-> "Internal server error",
     reason |-> e.message, details |-> "none"]

ExternalError(e) ==
    IF IsDomain(e) THEN auth_manager_error_handler(e) ELSE generic_exception_handler(e)

\* ----------------------------------------------------------------- guards
\* faulty variant: the guard lets NoResultFound through
raise_if_not_found_guard_passes(exc, raised) == raised

\* raise_if_not_found_guard: only NoResultFound is replaced by exc
raise_if_not_found_guard(exc, raised) ==
    IF raised.cls = "NoResultFound" THEN exc ELSE raised

\* faulty variant: the fixed error is raised with the code and details of the original
auth_error_guard_keeps_details(exc, error_message, raised) ==
    IF ~IsDomain(raised) THEN raised
    ELSE IF exc # None THEN ErrWith(exc, error_message, raised.code, raised.details)
    ELSE ErrWith("AuthManagerError",
                 IF raised.message # "" THEN raised.message ELSE error_message,
                 raised.code, raised.details)

\* auth_error_guard(exc, error_message): what the block's exception becomes
auth_error_guard(exc, error_message, raised) ==
    IF ~IsDomain(raised) THEN raised
    ELSE IF exc # None THEN Err(exc, error_message)
    ELSE ErrWith("AuthManagerError",
                 IF raised.message # "" THEN raised.message ELSE error_message,
                 raised.code, raised.details)

\* ------------------------------------------------------------ vault service
Found(id, row, token) == [ok |-> TRUE, id |-> id, entry |-> row, token |-> token, err |-> NoErr]
Failed(e) == [ok |-> FALSE, id |-> NoId, entry |-> NoRow, token |-> None, err |-> e]

NoMaterial(row) == row.encrypted_token = NoCipher \/ row.iv = None

\* faulty variant: the block decrypts without looking at the material
DecryptEntryUnguarded(id, row, exc) ==
    IF decrypt_token(row.encrypted_token, row.iv) = "DecryptError"
    THEN Failed(Native("DecryptError"))
    ELSE Found(id, row, decrypt_token(row.encrypted_token, row.iv))

\* the `with invariant_guard(entry, no material, exc)` block that decrypts
DecryptEntry(id, row, exc) ==
    IF NoMaterial(row) THEN Failed(exc)
    ELSE IF decrypt_token(row.encrypted_token, row.iv) = "DecryptError"
         THEN Failed(Native("DecryptError"))
         ELSE Found(id, row, decrypt_token(row.encrypted_token, row.iv))

retrieve_and_decrypt(v, token_id) ==
    LET q == retrieve(v, token_id) IN
    IF q.kind # "one"
    THEN Failed(raise_if_not_found_guard(Err("TokenNotFoundError", "Token not found"),
                                         Native(q.kind)))
    ELSE DecryptEntry(q.id, v[q.id], Err("TokenNotFoundError", "Token has no encrypted data"))

retrieve_or_raise_by_session_state_id(v, session_state_id, token_type) ==
    LET q == repo_retrieve_or_raise_by_session_state_id(v, session_state_id, token_type) IN
    IF q.kind # "one"
    THEN Failed(raise_if_not_found_guard(
                    ErrWith("DatabaseError", "No token found for the session/type requested",
                            "entity_not_found", "none"),
                    Native(q.kind)))
    ELSE DecryptEntry(q.id, v[q.id], Err("TokenNotFoundError", "Token has no encrypted data"))

\* `return None`: the call completes and hands back no entry
ReturnsNone == [ok |-> TRUE, id |-> NoId, entry |-> NoRow, token |-> None, err |-> NoErr]

\* VaultService.retrieve_by_session_state_id: `if entry:` asserts the material
\* and decrypts, else returns None
retrieve_by_session_state_id(v, session_state_id, token_type) ==
    LET q == repo_retrieve_by_session_state_id(v, session_state_id, token_type) IN
    IF q.kind = "none" THEN ReturnsNone
    ELSE IF q.kind # "one" THEN Failed(Native(q.kind))
    ELSE DecryptEntry(q.id, v[q.id], Native("AssertionError"))

\* VaultService.get_by_user_id: `assert entry` inside raise_if_not_found_guard,
\* then the invariant_guard block that decrypts
get_by_user_id(v, user_id, token_type) ==
    LET q == retrieve_by_user_id(v, user_id, token_type) IN
    IF q.kind # "one"
    THEN Failed(raise_if_not_found_guard(
                    Err("DatabaseError", "No Token found for the user/type requested"),
                    Native(IF q.kind = "none" THEN "AssertionError" ELSE q.kind)))
    ELSE DecryptEntry(q.id, v[q.id], Err("ValidationError", "Token has no encrypted data"))

\* faulty variant: shared only from two other entries on
check_shared_token_two(v, session_state_id, exclude_id, token_type) ==
    Cardinality(get_all_by_session_state_id(v, session_state_id, exclude_id, token_type)) > 1

\* faulty variant: the comparison is always true
check_shared_token_always(v, session_state_id, exclude_id, token_type) ==
    Cardinality(get_all_by_session_state_id(v, session_state_id, exclude_id, token_type)) >= 0

\* faulty variant: the census is taken over REFRESH entries
check_shared_token_refresh(v, session_state_id, exclude_id, token_type) ==
    Cardinality(get_all_by_session_state_id(v, session_state_id, exclude_id, REFRESH)) > 0

check_shared_token(v, session_state_id, exclude_id, token_type) ==
    Cardinality(get_all_by_session_state_id(v, session_state_id, exclude_id, token_type)) > 0

\* --------------------------------------------------------------- the gate
\* what a call of the python-keycloak client can raise: KeycloakPostError for an
\* error response of the provider, and the classes the gateway has no except
\* clause for, of which KeycloakConnectionError (the transport failed) stands here
SdkExceptions == {"KeycloakPostError", "KeycloakConnectionError"}

\* an introspection answer of the IdP, or the exception the call raised
Introspections ==
    [failed : {FALSE}, raised : {None}, active : {TRUE}, sub : Users \cup {None},
     sid : Sessions \cup {None}]
    \cup {[failed |-> FALSE, raised |-> None, active |-> FALSE, sub |-> None, sid |-> None],
          [failed |-> FALSE, raised |-> None, active |-> FALSE, sub |-> "u1", sid |-> "s1"]}
    \cup {[failed |-> TRUE, raised |-> e, active |-> FALSE, sub |-> None, sid |-> None] :
             e \in SdkExceptions}
NoInfo == [failed |-> FALSE, raised |-> None, active |-> FALSE, sub |-> None, sid |-> None]
\* what a request carries: no Authorization header (nothing is introspected), or a
\* bearer token and the IdP's answer about it
Bearers == {<<None, NoInfo>>} \cup ({"bearer"} \X Introspections)

\* the try block of a gateway method: except KeycloakPostError raises
\* KeycloakError(message, details = response code and body); any other
\* exception leaves the method as it is
KeycloakFailure(message) == ErrWith("KeycloakError", message, "keycloak_error", "provider")
ExceptKeycloakPostError(raised, message) ==
    IF raised = None THEN NoErr
    ELSE IF raised = "KeycloakPostError" THEN KeycloakFailure(message)
    ELSE Native(raised)

introspect_token(info) == ExceptKeycloakPostError(info.raised, "Token introspection failed")

\* faulty variant: any bearer token passes
get_validated_token_any(credentials, info) ==
    IF credentials = None THEN Err("UnauthorizedError", "Authorization header is required")
    ELSE NoErr

\* faulty variant: the claims are checked before the active flag
get_validated_token_claims_first(credentials, info) ==
    IF credentials = None THEN Err("UnauthorizedError", "Authorization header is required")
    ELSE IF info.failed THEN introspect_token(info)
    ELSE IF info.sub = None
         THEN Err("InvalidRequestError", "Token missing required claim: sub")
    ELSE IF info.sid = None
         THEN Err("InvalidRequestError", "Token missing required claim: session_state")
    ELSE IF ~info.active
         THEN ErrWith("TokenNotActiveError", "Token is not active", "token_not_active", "none")
    ELSE NoErr

\* the error get_validated_token raises, NoErr when it returns a ValidatedToken
get_validated_token(credentials, info) ==
    IF credentials = None THEN Err("UnauthorizedError", "Authorization header is required")
    ELSE IF info.failed THEN introspect_token(info)
    ELSE IF ~info.active
         THEN ErrWith("TokenNotActiveError", "Token is not active", "token_not_active", "none")
    ELSE IF info.sub = None
         THEN Err("InvalidRequestError", "Token missing required claim: sub")
    ELSE IF info.sid = None
         THEN Err("InvalidRequestError", "Token missing required claim: session_state")
    ELSE NoErr

\* faulty variant: the active flag is not looked at
validate_token_unchecked(credentials, info) ==
    IF credentials = None THEN Err("UnauthorizedError", "Authorization header is required")
    ELSE IF info.failed THEN introspect_token(info)
    ELSE NoErr

\* validate_token: the error it raises, NoErr when it answers valid=True
validate_token(credentials, info) ==
    IF credentials = None THEN Err("UnauthorizedError", "Authorization header is required")
    ELSE IF info.failed THEN introspect_token(info)
    ELSE IF ~info.active THEN Err("TokenNotActiveError", "Token is not active")
    ELSE NoErr

\* ------------------------------------------------------------ state tokens
\* jwt.encode(payload, key, HS256): the payload, the key that signed it and the
\* payload the signature was made over.  None stands for a field the payload lacks.
StateToken(user_id, session_state_id, key) ==
    [user_id |-> user_id, session_state_id |-> session_state_id, key |-> key,
     signed |-> <<user_id, session_state_id>>]
make_ack_state(user_id, session_state_id) == StateToken(user_id, session_state_id, Secret)

\* a token whose payload was rewritten after signing: the signature is the old one
Tampered(token, user_id, session_state_id) ==
    [token EXCEPT !.user_id = user_id, !.session_state_id = session_state_id]

\* jwt.decode(token, key, algorithms, options): the signature first, then the
\* exp claim unless verify_exp is off; expired says the clock is past exp
jwt_decode(token, key, expired, verify_exp) ==
    IF token.key # key \/ token.signed # <<token.user_id, token.session_state_id>>
    THEN Native("InvalidSignatureError")
    ELSE IF verify_exp /\ expired THEN Native("ExpiredSignatureError")
    ELSE NoErr

\* faulty variant: the signature is not verified
parse_ack_state_unverified(token, expired) ==
    IF token.user_id = None \/ token.session_state_id = None
    THEN Err("InvalidStateTokenError", "Missing required field in state token")
    ELSE NoErr

\* faulty variant: jwt.decode is left to verify exp
parse_ack_state_verify_exp(token, expired) ==
    IF jwt_decode(token, Secret, expired, TRUE) # NoErr
    THEN Err("InvalidStateTokenError", "Invalid state token")
    ELSE IF token.user_id = None \/ token.session_state_id = None
    THEN Err("InvalidStateTokenError", "Missing required field in state token")
    ELSE NoErr

\* parse_ack_state: the error it raises, NoErr when it returns the payload
parse_ack_state(token, expired) ==
    IF jwt_decode(token, Secret, expired, FALSE) # NoErr
    THEN Err("InvalidStateTokenError", "Invalid state token")
    ELSE IF token.user_id = None \/ token.session_state_id = None
    THEN Err("InvalidStateTokenError", "Missing required field in state token")
    ELSE NoErr

\* the AckStateTokenPayload parse_ack_state returns
AckStateTokenPayload(token) ==
    [user_id |-> token.user_id, session_state_id |-> token.session_state_id]

\* -------------------------------------------------------------- IdP answers
\* KeycloakTokenResponse of a grant, or the exception the call raised
TokenResponses ==
    [failed : {FALSE}, raised : {None}, refresh_token : Tokens \cup {None},
     session_state : Sessions]
    \cup {[failed |-> TRUE, raised |-> e, refresh_token |-> None, session_state |-> None] :
             e \in SdkExceptions}
NoResponse == [failed |-> FALSE, raised |-> None, refresh_token |-> None,
               session_state |-> None]

refresh_access_token(response) ==
    ExceptKeycloakPostError(response.raised, "Token refresh failed")
request_offline_token(response) ==
    ExceptKeycloakPostError(response.raised, "Offline token request failed")
exchange_code_for_token(response) ==
    ExceptKeycloakPostError(response.raised, "Code exchange failed")

\* how revoke_session ends: the session is deleted (200 or 204), the admin
\* token call raised, the DELETE request raised (httpx, outside any try), or
\* the DELETE answered another status
Revocations ==
    {[step |-> "done", raised |-> None]}
    \cup {[step |-> "_get_admin_token", raised |-> e] : e \in SdkExceptions}
    \cup {[step |-> "delete", raised |-> "ConnectError"], [step |-> "status", raised |-> None]}
_get_admin_token(revocation) ==
    IF revocation.step = "_get_admin_token"
    THEN ExceptKeycloakPostError(revocation.raised, "Admin token request failed")
    ELSE NoErr
revoke_session(revocation) ==
    IF _get_admin_token(revocation) # NoErr THEN _get_admin_token(revocation)
    ELSE IF revocation.step = "delete" THEN Native(revocation.raised)
    ELSE IF revocation.step = "status"
    THEN ErrWith("KeycloakError", "Session revocation failed", "keycloak_error", "provider")
    ELSE NoErr

\* ------------------------------------------------------------------- state
VARIABLES
    vault,      \* committed rows of auth_vault, by id
    nextId,     \* the next id uuid4 hands out
    ops,        \* requests served so far
    pc,         \* each task's position in its handler
    loc,        \* each task's local variables
    wr,         \* each task's uncommitted write (its database session)
    issued,     \* state tokens made by request_offline_token_consent
    revoked     \* sessions deleted at the IdP by revoke_session

vars == <<vault, nextId, ops, pc, loc, wr, issued, revoked>>

NoWrite == [kind |-> "none", id |-> NoId, row |-> NoRow]
Put(id, row) == [kind |-> "put", id |-> id, row |-> row]
Del(id) == [kind |-> "del", id |-> id, row |-> NoRow]

NoUpsert == [user_id |-> None, token |-> None, session_state_id |-> None,
             attributes |-> NoAttrs]
NoStateToken == StateToken(None, None, None)

Idle ==
    [ op |-> None, credentials |-> None, info |-> NoInfo, id |-> NoId,
      token |-> None, state |-> NoStateToken, expired |-> FALSE,
      error |-> None, error_description |-> None,
      entry_id |-> NoId, entry |-> NoRow, decrypted_token |-> None,
      response |-> NoResponse, upsert |-> NoUpsert, existing |-> NoId,
      deleted |-> FALSE, checked |-> FALSE, had_shared_session |-> FALSE,
      session_revoked |-> FALSE, new_id |-> NoId, validated |-> FALSE,
      err |-> NoErr ]

\* what task p's session reads: the committed rows under its own pending write
Apply(v, w) ==
    IF w.kind = "none" THEN v ELSE [v EXCEPT ![w.id] = w.row]
View(p) == Apply(vault, wr[p])

\* a row another task has written and not yet committed (row lock)
Locked(p, id) == \E q \in Procs \ {p} : wr[q].kind # "none" /\ wr[q].id = id

\* faulty variant: the iv the token was encrypted under is not passed to create()
store_without_iv(user_id, token, token_type, session_state_id, attributes, iv) ==
    NewRow(user_id, token_type, encrypt_token(token, iv), None, hash_token(token),
           session_state_id, attributes)

\* VaultService.store: encrypt under a fresh iv and insert (VaultRepository.create)
store(user_id, token, token_type, session_state_id, attributes, iv) ==
    NewRow(user_id, token_type, encrypt_token(token, iv), iv, hash_token(token),
           session_state_id, attributes)

\* The table outlives the service: a run starts on what earlier requests left.
\* The rows of user u1 in session s1 that a consent callback (OFFLINE) or
\* store_refresh_token (REFRESH) wrote, at most two rows and one REFRESH row.
LeftOffline == store("u1", "t1", OFFLINE, "s1", NoAttrs, "iv1")
LeftRefresh == store("u1", "t1", REFRESH, "s1", NoAttrs, "iv1")
\* encrypted_token and iv are nullable columns: a row may have lost its material
LeftBare == [LeftOffline EXCEPT !.encrypted_token = NoCipher, !.iv = None]
LeftRows == { <<>>, <<LeftOffline>>, <<LeftRefresh>>, <<LeftOffline, LeftOffline>>,
              <<LeftOffline, LeftRefresh>>, <<LeftRefresh, LeftOffline>>, <<LeftBare>> }
LeftVault(rows) == [i \in Ids |-> IF i <= Len(rows) THEN rows[i] ELSE NoRow]

Init ==
    /\ \E rows \in LeftRows :
          /\ vault = LeftVault(rows)
          /\ nextId = Len(rows) + 1
          /\ issued = IF \E i \in 1..Len(rows) : rows[i].token_type = OFFLINE
                      THEN {make_ack_state("u1", "s1")} ELSE {}
    /\ ops = 0
    /\ pc = [p \in Procs |-> "idle"]
    /\ loc = [p \in Procs |-> Idle]
    /\ wr = [p \in Procs |-> NoWrite]
    /\ revoked = {}

\* -------------------------------------------------------------- task steps
Goto(p, label, locals) ==
    /\ pc' = [pc EXCEPT ![p] = label]
    /\ loc' = [loc EXCEPT ![p] = locals]

\* the handler raised e: the task ends with that error
Raise(p, locals, e) == Goto(p, "done", [locals EXCEPT !.err = e])

\* a request arrives; FastAPI resolves ValidatedTokenDep before the handler runs
Arrive(p, op, credentials, info, first, locals) ==
    /\ pc[p] = "idle"
    /\ ops < MaxOps
    /\ ops' = ops + 1
    /\ LET l == [locals EXCEPT !.op = op, !.credentials = credentials, !.info = info,
                               !.validated = TRUE]
           e == get_validated_token(credentials, info)
       IN IF e # NoErr
          THEN Raise(p, [Idle EXCEPT !.op = op, !.credentials = credentials, !.info = info], e)
          ELSE Goto(p, first, l)

\* GET /validate-token
ValidateToken(p) ==
    /\ pc[p] = "idle"
    /\ ops < MaxOps
    /\ ops' = ops + 1
    /\ \E <<credentials, info>> \in Bearers :
          Raise(p, [Idle EXCEPT !.op = "validate_token", !.credentials = credentials,
                                !.info = info],
                validate_token(credentials, info))
    /\ UNCHANGED <<vault, nextId, wr, issued, revoked>>

\* GET /offline-token: request_offline_token_consent
RequestConsent(p) ==
    /\ \E <<credentials, info>> \in Bearers :
          /\ Arrive(p, "request_offline_token_consent", credentials, info, "done",
                    [Idle EXCEPT !.state = IF get_validated_token(credentials, info) = NoErr
                                            THEN make_ack_state(info.sub, info.sid)
                                            ELSE NoStateToken])
          /\ issued' = IF get_validated_token(credentials, info) = NoErr
                       THEN issued \cup {make_ack_state(info.sub, info.sid)}
                       ELSE issued
    /\ UNCHANGED <<vault, nextId, wr, revoked>>

\* faulty variant: the INSERT replaces the row the user already has of that type
InsertOverUsersRow(p, row) ==
    LET same == {i \in RowIds(View(p)) : /\ View(p)[i].user_id = row.user_id
                                          /\ View(p)[i].token_type = row.token_type}
    IN IF same # {}
       THEN /\ wr' = [wr EXCEPT ![p] = Put(CHOOSE i \in same : TRUE, row)]
            /\ nextId' = nextId
       ELSE /\ nextId <= MaxRows
            /\ wr' = [wr EXCEPT ![p] = Put(nextId, row)]
            /\ nextId' = nextId + 1

\* the INSERT of task p: a new id, visible to p alone until it commits
Insert(p, row) ==
    /\ nextId <= MaxRows
    /\ wr' = [wr EXCEPT ![p] = Put(nextId, row)]
    /\ nextId' = nextId + 1

\* the state tokens a callback can carry: issued ones, ones signed with another
\* key, and issued ones whose payload was rewritten
ForgedStates == {StateToken(u, s, OtherKey) : u \in Users, s \in Sessions}
TamperedStates ==
    {Tampered(t, u, s) : t \in issued, u \in Users, s \in Sessions} \ issued

\* faulty variant: the guard looks at error alone
OfflineTokenCallbackErrorOnly(p) ==
    /\ pc[p] = "idle"
    /\ ops < MaxOps
    /\ ops' = ops + 1
    /\ \E state \in issued \cup ForgedStates \cup TamperedStates, expired \in BOOLEAN,
          error \in {None, "access_denied"}, error_description \in {None, "user denied"},
          response \in TokenResponses :
          LET l == [Idle EXCEPT !.op = "offline_token_callback", !.state = state,
                                !.expired = expired, !.error = error,
                                !.error_description = error_description] IN
          IF error # None
          THEN Raise(p, l, ErrWith("KeycloakError",
                                   IF error # None THEN error ELSE error_description,
                                   "keycloak_callback_error", "none"))
          ELSE IF parse_ack_state(state, expired) # NoErr
          THEN Raise(p, l, auth_error_guard(None, "Ack state was tempered",
                                            parse_ack_state(state, expired)))
          ELSE IF response.failed
          THEN Raise(p, l, auth_error_guard(None, "Could not generate offline token",
                                            exchange_code_for_token(response)))
          ELSE IF response.refresh_token = None
          THEN Raise(p, [l EXCEPT !.response = response],
                     Err("KeycloakError", "No refresh token received from Keycloak"))
          ELSE Goto(p, "callback_store", [l EXCEPT !.response = response])
    /\ UNCHANGED <<vault, nextId, wr, issued, revoked>>

\* GET /offline-token/callback: error check, parse_ack_state, exchange_code_for_token
OfflineTokenCallback(p) ==
    /\ pc[p] = "idle"
    /\ ops < MaxOps
    /\ ops' = ops + 1
    /\ \E state \in issued \cup ForgedStates \cup TamperedStates, expired \in BOOLEAN,
          error \in {None, "access_denied"}, error_description \in {None, "user denied"},
          response \in TokenResponses :
          LET l == [Idle EXCEPT !.op = "offline_token_callback", !.state = state,
                                !.expired = expired, !.error = error,
                                !.error_description = error_description] IN
          IF error # None \/ error_description # None
          THEN Raise(p, l, ErrWith("KeycloakError",
                                   IF error # None THEN error ELSE error_description,
                                   "keycloak_callback_error", "none"))
          ELSE IF parse_ack_state(state, expired) # NoErr
          THEN Raise(p, l, auth_error_guard(None, "Ack state was tempered",
                                            parse_ack_state(state, expired)))
          ELSE IF response.failed
          THEN Raise(p, l, auth_error_guard(None, "Could not generate offline token",
                                            exchange_code_for_token(response)))
          ELSE IF response.refresh_token = None
          THEN Raise(p, [l EXCEPT !.response = response],
                     Err("KeycloakError", "No refresh token received from Keycloak"))
          ELSE Goto(p, "callback_store", [l EXCEPT !.response = response])
    /\ UNCHANGED <<vault, nextId, wr, issued, revoked>>

\* faulty variant: the row takes the session of the token response
CallbackStoreResponseSession(p) ==
    /\ pc[p] = "callback_store"
    /\ \E iv \in IVs :
          Insert(p, store(loc[p].state.user_id, loc[p].response.refresh_token, OFFLINE,
                          loc[p].response.session_state, NoAttrs, iv))
    /\ Goto(p, "done", [loc[p] EXCEPT !.new_id = nextId])
    /\ UNCHANGED <<vault, ops, issued, revoked>>

CallbackStore(p) ==
    /\ pc[p] = "callback_store"
    /\ \E iv \in IVs :
          Insert(p, store(loc[p].state.user_id, loc[p].response.refresh_token, OFFLINE,
                          loc[p].state.session_state_id, NoAttrs, iv))
    /\ Goto(p, "done", [loc[p] EXCEPT !.new_id = nextId])
    /\ UNCHANGED <<vault, ops, issued, revoked>>

\* POST /offline-token-id: make_offline_token
MakeOfflineToken(p) ==
    /\ \E <<credentials, info>> \in Bearers :
          Arrive(p, "make_offline_token", credentials, info, "mint_retrieve", Idle)
    /\ UNCHANGED <<vault, nextId, wr, issued, revoked>>

\* retrieve_or_raise_by_session_state_id(OFFLINE), then request_offline_token
MintRetrieve(p) ==
    /\ pc[p] = "mint_retrieve"
    /\ LET r == retrieve_or_raise_by_session_state_id(View(p), loc[p].info.sid, OFFLINE)
           l == [loc[p] EXCEPT !.entry_id = r.id, !.entry = r.entry,
                               !.decrypted_token = r.token]
       IN IF ~r.ok
          THEN Raise(p, loc[p], auth_error_guard(None,
                         "No offline token was found to generate a new one", r.err))
          ELSE \E response \in TokenResponses :
                 IF response.failed
                 THEN Raise(p, l, auth_error_guard(None,
                                "Keycloak generating new offline token failed",
                                request_offline_token(response)))
                 ELSE IF response.refresh_token = None
                 THEN Raise(p, [l EXCEPT !.response = response],
                            Err("KeycloakError", "Could not generate new token"))
                 ELSE Goto(p, "mint_store", [l EXCEPT !.response = response])
    /\ UNCHANGED <<vault, nextId, ops, wr, issued, revoked>>

MintStore(p) ==
    /\ pc[p] = "mint_store"
    /\ \E iv \in IVs :
          Insert(p, store(loc[p].info.sub, loc[p].response.refresh_token, OFFLINE,
                          loc[p].response.session_state, AttrFrom(loc[p].entry_id), iv))
    /\ Goto(p, "done", [loc[p] EXCEPT !.new_id = nextId])
    /\ UNCHANGED <<vault, ops, issued, revoked>>

\* DELETE /offline-token-id: revoke_offline_token
RevokeOfflineToken(p) ==
    /\ \E <<credentials, info>> \in Bearers, id \in Ids :
          Arrive(p, "revoke_offline_token", credentials, info, "revoke_retrieve",
                 [Idle EXCEPT !.id = id])
    /\ UNCHANGED <<vault, nextId, wr, issued, revoked>>

\* faulty variant: the entry must belong to the caller
RevokeRetrieveOwnerOnly(p) ==
    /\ pc[p] = "revoke_retrieve"
    /\ LET r == retrieve_and_decrypt(View(p), loc[p].id) IN
       IF ~r.ok
       THEN Raise(p, loc[p], auth_error_guard("TokenNotFoundError",
                                              "No offline token was found", r.err))
       ELSE IF r.entry.user_id # loc[p].info.sub
       THEN Raise(p, loc[p], Err("UnauthorizedError", "Not the owner of the token"))
       ELSE Goto(p, "revoke_delete", [loc[p] EXCEPT !.entry_id = r.id, !.entry = r.entry,
                                                    !.decrypted_token = r.token])
    /\ UNCHANGED <<vault, nextId, ops, wr, issued, revoked>>

\* retrieve_and_decrypt(id) under the fixed TokenNotFoundError rewrap
RevokeRetrieve(p) ==
    /\ pc[p] = "revoke_retrieve"
    /\ LET r == retrieve_and_decrypt(View(p), loc[p].id) IN
       IF ~r.ok
       THEN Raise(p, loc[p], auth_error_guard("TokenNotFoundError",
                                              "No offline token was found", r.err))
       ELSE Goto(p, "revoke_delete", [loc[p] EXCEPT !.entry_id = r.id, !.entry = r.entry,
                                                    !.decrypted_token = r.token])
    /\ UNCHANGED <<vault, nextId, ops, wr, issued, revoked>>

\* faulty variant: delete returns true whether or not a row was there
RevokeDeleteAlwaysTrue(p) ==
    /\ pc[p] = "revoke_delete"
    /\ ~Locked(p, loc[p].entry_id)
    /\ LET there == IsRow(View(p)[loc[p].entry_id]) IN
       /\ wr' = [wr EXCEPT ![p] = IF there THEN Del(loc[p].entry_id) ELSE wr[p]]
       /\ Goto(p, "revoke_check", [loc[p] EXCEPT !.deleted = TRUE])
    /\ UNCHANGED <<vault, nextId, ops, issued, revoked>>

\* VaultRepository.delete: waits for a concurrent writer of the row, then deletes
\* what is left of it; rowcount > 0 iff a row was there
RevokeDelete(p) ==
    /\ pc[p] = "revoke_delete"
    /\ ~Locked(p, loc[p].entry_id)
    /\ LET there == IsRow(View(p)[loc[p].entry_id]) IN
       /\ wr' = [wr EXCEPT ![p] = IF there THEN Del(loc[p].entry_id) ELSE wr[p]]
       /\ Goto(p, "revoke_check", [loc[p] EXCEPT !.deleted = there])
    /\ UNCHANGED <<vault, nextId, ops, issued, revoked>>

\* faulty variant: the handler returns after the check, shared or not
RevokeCheckNeverRevokes(p) ==
    /\ pc[p] = "revoke_check"
    /\ LET shared == check_shared_token(View(p), loc[p].entry.session_state_id,
                                        loc[p].entry_id, OFFLINE)
       IN Goto(p, "done", [loc[p] EXCEPT !.checked = TRUE, !.had_shared_session = shared])
    /\ UNCHANGED <<vault, nextId, ops, wr, issued, revoked>>

\* check_shared_token(session, exclude_id=entry.id, OFFLINE)
RevokeCheck(p) ==
    /\ pc[p] = "revoke_check"
    /\ LET shared == check_shared_token(View(p), loc[p].entry.session_state_id,
                                        loc[p].entry_id, OFFLINE)
           l == [loc[p] EXCEPT !.checked = TRUE, !.had_shared_session = shared]
       IN IF shared THEN Goto(p, "done", l) ELSE Goto(p, "revoke_session", l)
    /\ UNCHANGED <<vault, nextId, ops, wr, issued, revoked>>

\* KeycloakService.revoke_session: the admin token, then the session DELETE
RevokeSession(p) ==
    /\ pc[p] = "revoke_session"
    /\ \E revocation \in Revocations :
          IF revoke_session(revocation) = NoErr
          THEN /\ revoked' = revoked \cup {loc[p].entry.session_state_id}
               /\ Goto(p, "done", [loc[p] EXCEPT !.session_revoked = TRUE])
          ELSE /\ Raise(p, loc[p], auth_error_guard("KeycloakError", "Revoke session failed",
                                         revoke_session(revocation)))
               /\ UNCHANGED revoked
    /\ UNCHANGED <<vault, nextId, ops, wr, issued>>

\* the arguments of VaultService.upsert_refresh_token
Upsert(user_id, token, session_state_id, attributes) ==
    [user_id |-> user_id, token |-> token, session_state_id |-> session_state_id,
     attributes |-> attributes]

\* POST /refresh-token: store_refresh_token
StoreRefreshToken(p) ==
    /\ \E <<credentials, info>> \in Bearers, token \in Tokens :
          Arrive(p, "store_refresh_token", credentials, info, "upsert_read",
                 [Idle EXCEPT !.token = token,
                              !.upsert = Upsert(info.sub, token, info.sid, NoAttrs)])
    /\ UNCHANGED <<vault, nextId, wr, issued, revoked>>

\* POST /refresh-token-id: make_new_refresh_token_id
MakeNewRefreshTokenId(p) ==
    /\ \E <<credentials, info>> \in Bearers :
          Arrive(p, "make_new_refresh_token_id", credentials, info, "refresh_retrieve", Idle)
    /\ UNCHANGED <<vault, nextId, wr, issued, revoked>>

\* retrieve_or_raise_by_session_state_id(REFRESH), refresh_access_token, and the
\* guard that raises when the response carries a refresh token
RefreshRetrieve(p) ==
    /\ pc[p] = "refresh_retrieve"
    /\ LET r == retrieve_or_raise_by_session_state_id(View(p), loc[p].info.sid, REFRESH)
           l == [loc[p] EXCEPT !.entry_id = r.id, !.entry = r.entry,
                               !.decrypted_token = r.token]
       IN IF ~r.ok
          THEN Raise(p, loc[p], auth_error_guard(None,
                         "No refresh token was found with this session", r.err))
          ELSE \E response \in TokenResponses :
                 IF response.failed
                 THEN Raise(p, l, refresh_access_token(response))
                 ELSE IF response.refresh_token # None
                 THEN Raise(p, [l EXCEPT !.response = response],
                            Err("KeycloakError", "No refresh token was generated"))
                 ELSE Goto(p, "upsert_read",
                           [l EXCEPT !.response = response,
                                     !.upsert = Upsert(loc[p].info.sub, response.refresh_token,
                                                       response.session_state,
                                                       AttrSession(loc[p].info.sid))])
    /\ UNCHANGED <<vault, nextId, ops, wr, issued, revoked>>

\* POST /access-token: get_access_token
GetAccessToken(p) ==
    /\ \E <<credentials, info>> \in Bearers, id \in Ids :
          Arrive(p, "get_access_token", credentials, info, "access_retrieve",
                 [Idle EXCEPT !.id = id])
    /\ UNCHANGED <<vault, nextId, wr, issued, revoked>>

\* faulty variant: the rotated token is stored under the session of the entry
AccessRetrieveEntrySession(p) ==
    /\ pc[p] = "access_retrieve"
    /\ LET r == retrieve_and_decrypt(View(p), loc[p].id)
           l == [loc[p] EXCEPT !.entry_id = r.id, !.entry = r.entry,
                               !.decrypted_token = r.token]
       IN IF ~r.ok
          THEN Raise(p, loc[p], auth_error_guard(None,
                         "No data found for this persistent token id", r.err))
          ELSE \E response \in TokenResponses :
                 IF response.failed
                 THEN Raise(p, l, auth_error_guard(None,
                                "Could not generate new access token",
                                refresh_access_token(response)))
                 ELSE IF response.refresh_token # None
                 THEN Goto(p, "upsert_read",
                           [l EXCEPT !.response = response,
                                     !.upsert = Upsert(r.entry.user_id, response.refresh_token,
                                                       r.entry.session_state_id,
                                                       r.entry.attributes)])
                 ELSE Goto(p, "done", [l EXCEPT !.response = response])
    /\ UNCHANGED <<vault, nextId, ops, wr, issued, revoked>>

\* retrieve_and_decrypt(id), refresh_access_token, upsert of a rotated refresh token
AccessRetrieve(p) ==
    /\ pc[p] = "access_retrieve"
    /\ LET r == retrieve_and_decrypt(View(p), loc[p].id)
           l == [loc[p] EXCEPT !.entry_id = r.id, !.entry = r.entry,
                               !.decrypted_token = r.token]
       IN IF ~r.ok
          THEN Raise(p, loc[p], auth_error_guard(None,
                         "No data found for this persistent token id", r.err))
          ELSE \E response \in TokenResponses :
                 IF response.failed
                 THEN Raise(p, l, auth_error_guard(None,
                                "Could not generate new access token",
                                refresh_access_token(response)))
                 ELSE IF response.refresh_token # None
                 THEN Goto(p, "upsert_read",
                           [l EXCEPT !.response = response,
                                     !.upsert = Upsert(r.entry.user_id, response.refresh_token,
                                                       response.session_state,
                                                       r.entry.attributes)])
                 ELSE Goto(p, "done", [l EXCEPT !.response = response])
    /\ UNCHANGED <<vault, nextId, ops, wr, issued, revoked>>

\* VaultService.upsert_refresh_token encrypts its token, then
\* VaultRepository.upsert_refresh_token reads the user's REFRESH row
UpsertRead(p) ==
    /\ pc[p] = "upsert_read"
    /\ LET q == retrieve_by_user_id(View(p), loc[p].upsert.user_id, REFRESH) IN
       IF loc[p].upsert.token = None THEN Raise(p, loc[p], Native("EncryptError"))
       ELSE IF q.kind \notin {"one", "none"} THEN Raise(p, loc[p], Native(q.kind))
       ELSE Goto(p, "upsert_write", [loc[p] EXCEPT !.existing = q.id])
    /\ UNCHANGED <<vault, nextId, ops, wr, issued, revoked>>

\* faulty variant: the UPDATE leaves token_hash as it was
UpdateValuesKeepsHash(row, u, iv) ==
    [row EXCEPT !.encrypted_token = encrypt_token(u.token, iv), !.iv = iv,
                !.session_state_id = u.session_state_id, !.attributes = u.attributes]

\* faulty variant: the UPDATE leaves session_state_id and attributes as they were
UpdateValuesKeepsSession(row, u, iv) ==
    [row EXCEPT !.encrypted_token = encrypt_token(u.token, iv), !.iv = iv,
                !.token_hash = hash_token(u.token)]

\* the five columns upsert_refresh_token's UPDATE sets
UpdateValues(row, u, iv) ==
    [row EXCEPT !.encrypted_token = encrypt_token(u.token, iv), !.iv = iv,
                !.token_hash = hash_token(u.token),
                !.session_state_id = u.session_state_id, !.attributes = u.attributes]

\* UPDATE ... WHERE id = existing.id (waits for a concurrent writer of the row and
\* updates what is left of it), or create() when no REFRESH row was read
UpsertWrite(p) ==
    /\ pc[p] = "upsert_write"
    /\ \E iv \in IVs :
          LET u == loc[p].upsert
              existing == loc[p].existing
          IN IF existing # NoId
             THEN /\ ~Locked(p, existing)
                  /\ wr' = [wr EXCEPT ![p] =
                              IF IsRow(View(p)[existing])
                              THEN Put(existing, UpdateValues(View(p)[existing], u, iv))
                              ELSE wr[p]]
                  /\ Goto(p, "done", [loc[p] EXCEPT !.new_id = existing])
                  /\ UNCHANGED nextId
             ELSE /\ Insert(p, store(u.user_id, u.token, REFRESH, u.session_state_id,
                                     u.attributes, iv))
                  /\ Goto(p, "done", [loc[p] EXCEPT !.new_id = nextId])
    /\ UNCHANGED <<vault, ops, issued, revoked>>

\* the handler returned or raised: the session commits on success and rolls back
\* on an error, and the response leaves
Finish(p) ==
    /\ pc[p] = "done"
    /\ vault' = IF loc[p].err = NoErr THEN Apply(vault, wr[p]) ELSE vault
    /\ wr' = [wr EXCEPT ![p] = NoWrite]
    /\ Goto(p, "idle", Idle)
    /\ UNCHANGED <<nextId, ops, issued, revoked>>

\* the data of the Ok(...) response a handler returns, from its locals
OkData(l) ==
    CASE l.op = "validate_token" -> [valid |-> TRUE]
      [] l.op = "request_offline_token_consent" ->
            [state |-> l.state, session_state_id |-> l.info.sid]
      [] l.op = "offline_token_callback" ->
            [persistent_token_id |-> l.new_id, session_state_id |-> l.state.session_state_id]
      [] l.op = "make_offline_token" ->
            [persistent_token_id |-> l.new_id, session_state_id |-> l.response.session_state]
      [] l.op = "revoke_offline_token" ->
            [persistent_token_id |-> l.entry_id, token_deleted |-> l.deleted,
             session_revoked |-> l.session_revoked,
             had_shared_session |-> l.had_shared_session]
      [] l.op \in {"store_refresh_token", "make_new_refresh_token_id"} ->
            [persistent_token_id |-> l.new_id]
      [] OTHER -> [access_token |-> "access"]

\* ---------------------------------------------------------- specifications
Begin(p) ==
    \/ ValidateToken(p)
    \/ RequestConsent(p)
    \/ OfflineTokenCallback(p)
    \/ MakeOfflineToken(p)
    \/ RevokeOfflineToken(p)
    \/ StoreRefreshToken(p)
    \/ MakeNewRefreshTokenId(p)
    \/ GetAccessToken(p)

Step(p) ==
    \/ CallbackStore(p)
    \/ MintRetrieve(p)
    \/ MintStore(p)
    \/ RevokeRetrieve(p)
    \/ RevokeDelete(p)
    \/ RevokeCheck(p)
    \/ RevokeSession(p)
    \/ RefreshRetrieve(p)
    \/ AccessRetrieve(p)
    \/ UpsertRead(p)
    \/ UpsertWrite(p)
    \/ Finish(p)

\* requests overlap freely
Next == \E p \in Procs : Begin(p) \/ Step(p)
Spec == Init /\ [][Next]_vars

\* requests served one after the other by a single task: they never overlap
SeqNext == \E p \in {"p1"} : Begin(p) \/ Step(p)
SeqSpec == Init /\ [][SeqNext]_vars

\* revoke_offline_token requests only, overlapping: the one caller of delete
RevokeNext ==
    \E p \in Procs :
        \/ RevokeOfflineToken(p)
        \/ RevokeRetrieve(p)
        \/ RevokeDelete(p)
        \/ RevokeCheck(p)
        \/ RevokeSession(p)
        \/ Finish(p)
RevokeSpec == Init /\ [][RevokeNext]_vars

\* ------------------------------------------------------------------ claims
RefreshRowsOf(v, user_id) ==
    {i \in RowIds(v) : v[i].user_id = user_id /\ v[i].token_type = REFRESH}

\* task p's handler is over and its response leaves in this step
Finishes(p) == pc[p] = "done" /\ pc'[p] = "idle"
Succeeds(p) == Finishes(p) /\ loc[p].err = NoErr

\* a successful upsert_refresh_token call of task p ends in this step
UpsertReturns(p) == Succeeds(p) /\ loc[p].upsert # NoUpsert /\ loc[p].new_id # NoId

\* the row holds exactly what upsert_refresh_token(u) wrote
WrittenBy(row, u) ==
    /\ IsRow(row)
    /\ row.user_id = u.user_id
    /\ row.token_type = REFRESH
    /\ row.iv \in IVs
    /\ row.encrypted_token = encrypt_token(u.token, row.iv)
    /\ row.token_hash = hash_token(u.token)
    /\ row.session_state_id = u.session_state_id
    /\ row.attributes = u.attributes

\* C1: with requests served one after the other, a successful upsert_refresh
\* call for user U leaves exactly one REFRESH row of U, the one whose id it
\* returns, holding the token material, hash, session and attributes of that
\* call; and a REFRESH row changes only when an upsert_refresh call or a delete
\* (revoke_offline_token) commits.
C1_UpsertKeepsOneRefreshRow ==
    [][ /\ \A p \in Procs : UpsertReturns(p) =>
              /\ RefreshRowsOf(vault', loc[p].upsert.user_id) = {loc[p].new_id}
              /\ WrittenBy(vault'[loc[p].new_id], loc[p].upsert)
        /\ \A i \in Ids :
              (vault[i].token_type = REFRESH /\ vault'[i] # vault[i]) =>
                  \E p \in Procs : \/ UpsertReturns(p) /\ loc[p].new_id = i
                                   \/ Succeeds(p) /\ loc[p].op = "revoke_offline_token"
                                                  /\ loc[p].entry_id = i
      ]_vars

\* C1 witness: a second upsert_refresh for a user has replaced the user's row
C1_Witness ==
    \E p \in Procs :
        /\ pc[p] = "done" /\ loc[p].err = NoErr /\ ops = 2
        /\ loc[p].existing # NoId /\ loc[p].new_id = loc[p].existing
        /\ View(p)[loc[p].existing].session_state_id # vault[loc[p].existing].session_state_id
        /\ Cardinality(RefreshRowsOf(View(p), loc[p].upsert.user_id)) = 1

\* C2: in every reachable state, whatever the overlap of requests, the vault
\* holds at most one REFRESH row per user.
C2_AtMostOneRefreshRowPerUser ==
    \A u \in Users : Cardinality(RefreshRowsOf(vault, u)) <= 1

\* the rows other than `id` that carry session s, of the given types
OthersOfSession(v, s, id, types) ==
    {j \in RowIds(v) : j # id /\ v[j].session_state_id = s /\ v[j].token_type \in types}

\* task p is past the gate of revoke_offline_token(id) and entry id is in the
\* vault: a row that holds its material (one that lost it counts as not found)
Revoking(p) ==
    /\ loc[p].op = "revoke_offline_token"
    /\ loc[p].validated
    /\ IsRow(vault[loc[p].id])
    /\ ~NoMaterial(vault[loc[p].id])

\* C3: with requests served one after the other, revoke_offline_token(E.id) of
\* an entry E whose session another OFFLINE entry shares makes no upstream
\* revoke_session call, succeeds, answers had_shared_session=true and
\* session_revoked=false, and removes row E and nothing else.
C3_SharedSessionDeletesRowOnly ==
    [][ \A p \in Procs :
          ( /\ Revoking(p)
            /\ OthersOfSession(vault, vault[loc[p].id].session_state_id, loc[p].id,
                               {OFFLINE}) # {} )
          => /\ revoked' = revoked
             /\ pc'[p] # "revoke_session"
             /\ Finishes(p) =>
                   /\ loc[p].err = NoErr
                   /\ OkData(loc[p]).token_deleted
                   /\ OkData(loc[p]).had_shared_session
                   /\ ~OkData(loc[p]).session_revoked
                   /\ vault' = [vault EXCEPT ![loc[p].id] = NoRow]
      ]_vars

\* C3 witness: a revoke of an entry whose session is shared is about to answer
C3_Witness ==
    \E p \in Procs :
        /\ Revoking(p) /\ pc[p] = "done" /\ loc[p].err = NoErr
        /\ loc[p].had_shared_session /\ loc[p].deleted
        /\ OthersOfSession(vault, loc[p].entry.session_state_id, loc[p].id, {OFFLINE}) # {}

\* C4: with requests served one after the other, a successful
\* revoke_offline_token(E.id) of the last entry that references session S has
\* deleted E, has called revoke_session(S), and answers session_revoked=true and
\* had_shared_session=false.
C4_LastEntryRevokesSession ==
    \A p \in Procs :
        ( /\ Revoking(p) /\ pc[p] = "done" /\ loc[p].err = NoErr
          /\ OthersOfSession(vault, vault[loc[p].id].session_state_id, loc[p].id,
                             TokenType) = {} )
        => /\ wr[p] = Del(loc[p].id)
           /\ OkData(loc[p]).token_deleted
           /\ OkData(loc[p]).session_revoked
           /\ ~OkData(loc[p]).had_shared_session
           /\ vault[loc[p].id].session_state_id \in revoked

\* C4 witness: the revoke of a session's last entry is about to answer
C4_Witness ==
    \E p \in Procs :
        /\ Revoking(p) /\ pc[p] = "done" /\ loc[p].err = NoErr
        /\ loc[p].session_revoked
        /\ OthersOfSession(vault, loc[p].entry.session_state_id, loc[p].id, TokenType) = {}

C6_SharedIffOtherEntry ==
    /\ \A s \in Sessions, e \in Ids, t \in TokenType :
          check_shared_token(vault, s, e, t)
              <=> (\E j \in Ids : /\ IsRow(vault[j]) /\ j # e
                                  /\ vault[j].session_state_id = s
                                  /\ vault[j].token_type = t)
    /\ \A p \in Procs :
          loc[p].checked =>
              (loc[p].had_shared_session
                  <=> \E j \in Ids : /\ IsRow(View(p)[j]) /\ j # loc[p].entry_id
                                     /\ View(p)[j].session_state_id
                                            = loc[p].entry.session_state_id
                                     /\ View(p)[j].token_type = OFFLINE)

\* C6 witness: of two OFFLINE entries that shared a session one was deleted, and
\* the census for the other now finds the session unshared
C6_Witness ==
    \E p \in Procs :
        /\ loc[p].checked /\ ~loc[p].had_shared_session
        /\ loc[p].entry.token_type = OFFLINE
        /\ \E j \in Ids : j # loc[p].entry_id /\ j < nextId /\ ~IsRow(vault[j])
        /\ ~check_shared_token(vault, loc[p].entry.session_state_id, loc[p].entry_id, OFFLINE)

\* the introspection of task p's bearer token gave an answer
Introspected(p) == loc[p].credentials = "bearer" /\ ~loc[p].info.failed

\* C7 as claimed: validate_token answers valid=true only if introspection
\* reports active=true and both sub and sid are present.
C7_ValidNeedsSubAndSid ==
    \A p \in Procs :
        ( /\ pc[p] = "done" /\ loc[p].op = "validate_token"
          /\ loc[p].err = NoErr /\ OkData(loc[p]).valid )
        => loc[p].info.active /\ loc[p].info.sub # None /\ loc[p].info.sid # None

\* C7 amended: validate_token answers valid=true only if the request carries a
\* bearer token whose introspection reports active=true (sub and sid are not
\* looked at).
C7_ValidNeedsActive ==
    \A p \in Procs :
        ( /\ pc[p] = "done" /\ loc[p].op = "validate_token"
          /\ loc[p].err = NoErr /\ OkData(loc[p]).valid )
        => Introspected(p) /\ loc[p].info.active

\* C7 witness: valid=true for an active token that has neither sub nor sid
C7_Witness ==
    \E p \in Procs :
        /\ pc[p] = "done" /\ loc[p].op = "validate_token" /\ loc[p].err = NoErr
        /\ loc[p].info.active /\ loc[p].info.sub = None /\ loc[p].info.sid = None

GatedOps == {"request_offline_token_consent", "make_offline_token", "revoke_offline_token",
             "store_refresh_token", "make_new_refresh_token_id", "get_access_token"}

\* C8: get_validated_token yields a ValidatedToken exactly when introspection
\* reports active=true with sub and sid present, and the ValidatedToken carries
\* that sub and sid; otherwise the request ends with token_not_active (401) for
\* an inactive token, else invalid_request (400) for a missing sub, else
\* invalid_request (400) for a missing sid, and never with internal_error.
C8_GateKinds ==
    \A p \in Procs :
        (loc[p].op \in GatedOps /\ Introspected(p)) =>
            LET info == loc[p].info
                out  == ExternalError(loc[p].err)
            IN /\ loc[p].validated
                     <=> (info.active /\ info.sub # None /\ info.sid # None)
               /\ ~loc[p].validated =>
                     /\ pc[p] = "done"
                     /\ out.code # "internal_error"
                     /\ ~info.active =>
                           /\ loc[p].err.cls = "TokenNotActiveError"
                           /\ out.code = "token_not_active" /\ out.status = 401
                     /\ (info.active /\ info.sub = None) =>
                           /\ loc[p].err.cls = "InvalidRequestError"
                           /\ loc[p].err.message = "Token missing required claim: sub"
                           /\ out.code = "invalid_request" /\ out.status = 400
                     /\ (info.active /\ info.sub # None /\ info.sid = None) =>
                           /\ loc[p].err.cls = "InvalidRequestError"
                           /\ loc[p].err.message
                                  = "Token missing required claim: session_state"
                           /\ out.code = "invalid_request" /\ out.status = 400

\* C8 witness: an inactive token that also lacks sub and sid was refused as not active
C8_Witness ==
    \E p \in Procs :
        /\ pc[p] = "done" /\ loc[p].op \in GatedOps /\ Introspected(p)
        /\ ~loc[p].info.active /\ loc[p].info.sub = None
        /\ loc[p].err.cls = "TokenNotActiveError"

\* C9: with requests served one after the other, a successful
\* offline_token_callback(code, state) adds exactly one row to the vault: an
\* OFFLINE row with the user_id and session_state_id of the state token, which
\* request_offline_token_consent issued, holding the refresh token of the code
\* exchange; it answers that row's id and that session id.
C9_CallbackStoresOneOfflineRow ==
    [][ \A p \in Procs :
          (Succeeds(p) /\ loc[p].op = "offline_token_callback") =>
              LET id  == OkData(loc[p]).persistent_token_id
                  row == vault'[id]
              IN /\ id \in Ids /\ ~IsRow(vault[id])
                 /\ \A j \in Ids \ {id} : vault'[j] = vault[j]
                 /\ IsRow(row) /\ row.token_type = OFFLINE
                 /\ loc[p].state \in issued
                 /\ row.user_id = loc[p].state.user_id
                 /\ row.session_state_id = loc[p].state.session_state_id
                 /\ OkData(loc[p]).session_state_id = row.session_state_id
                 /\ decrypt_token(row.encrypted_token, row.iv) = loc[p].response.refresh_token
                 /\ loc[p].response.refresh_token \in Tokens
      ]_vars

\* C9 witness: a callback is about to answer with the id of the row it stored,
\* for a state token whose session is not the one of the token response
C9_Witness ==
    \E p \in Procs :
        /\ pc[p] = "done" /\ loc[p].op = "offline_token_callback" /\ loc[p].err = NoErr
        /\ loc[p].new_id # NoId /\ wr[p].kind = "put"
        /\ loc[p].response.session_state # loc[p].state.session_state_id

\* the IdP was asked for a token and gave no refresh token: the call failed, or
\* its response carries none
IdpGaveNoRefreshToken(l) == l.err.code = "keycloak_error"

\* C10: make_offline_token(user, S) stores a new OFFLINE row and answers its id
\* whenever at least one usable OFFLINE entry with session S exists, unless the
\* IdP gives no refresh token; also when two or more OFFLINE entries share S.
C10_MintWithEntryStores ==
    \A p \in Procs :
        ( /\ pc[p] = "done" /\ loc[p].op = "make_offline_token" /\ loc[p].validated
          /\ \E i \in RowIds(vault) : /\ vault[i].token_type = OFFLINE
                                     /\ vault[i].session_state_id = loc[p].info.sid
                                     /\ ~NoMaterial(vault[i])
          /\ ~IdpGaveNoRefreshToken(loc[p]) )
        => /\ loc[p].err = NoErr
           /\ wr[p].kind = "put" /\ wr[p].id = OkData(loc[p]).persistent_token_id
           /\ wr[p].row.token_type = OFFLINE

\* C11: when the vault holds a usable REFRESH row for the caller's session and
\* the IdP refresh returns a response that contains a refresh token,
\* make_new_refresh_token_id upserts that token as the caller's REFRESH row and
\* answers its persistent id.
C11_NewRefreshTokenIdUpserts ==
    \A p \in Procs :
        ( /\ pc[p] = "done" /\ loc[p].op = "make_new_refresh_token_id" /\ loc[p].validated
          /\ loc[p].entry_id # NoId
          /\ loc[p].response.refresh_token \in Tokens )
        => /\ loc[p].err = NoErr
           /\ wr[p].kind = "put" /\ wr[p].id = OkData(loc[p]).persistent_token_id
           /\ wr[p].row.token_type = REFRESH /\ wr[p].row.user_id = loc[p].info.sub
           /\ decrypt_token(wr[p].row.encrypted_token, wr[p].row.iv)
                  = loc[p].response.refresh_token

\* a store(type=OFFLINE) of task p commits in this step
StoresOffline(p) ==
    Succeeds(p) /\ loc[p].op \in {"offline_token_callback", "make_offline_token"}

\* C12: with requests served one after the other, every store(user, T, OFFLINE)
\* adds one row under an id no present row has and leaves every other row as it
\* was, the new row is retrievable by its id with plaintext T, and a delete
\* removes its row alone: N stores give N distinct rows, each retrievable and
\* deletable on its own.
C12_StoreAlwaysInserts ==
    [][ \A p \in Procs :
          /\ StoresOffline(p) =>
                LET id == loc[p].new_id IN
                /\ id \in Ids \ RowIds(vault)
                /\ RowIds(vault') = RowIds(vault) \cup {id}
                /\ \A j \in Ids \ {id} : vault'[j] = vault[j]
                /\ retrieve_and_decrypt(vault', id)
                       = Found(id, vault'[id], loc[p].response.refresh_token)
                /\ vault'[id].token_type = OFFLINE
          /\ (Succeeds(p) /\ loc[p].op = "revoke_offline_token" /\ loc[p].deleted) =>
                /\ RowIds(vault') = RowIds(vault) \ {loc[p].entry_id}
                /\ \A j \in Ids \ {loc[p].entry_id} : vault'[j] = vault[j]
      ]_vars

\* C12 witness: a second OFFLINE row of a user is about to be committed beside
\* the first, which the same user's earlier store left
C12_Witness ==
    \E p \in Procs :
        /\ pc[p] = "done" /\ loc[p].err = NoErr /\ loc[p].op = "make_offline_token"
        /\ wr[p].kind = "put" /\ wr[p].id \notin RowIds(vault)
        /\ \E i \in RowIds(vault) : /\ vault[i].token_type = OFFLINE
                                   /\ vault[i].user_id = wr[p].row.user_id

\* C13: no operation changes a field of an existing OFFLINE row: from one
\* state to the next an OFFLINE row is as it was or it is gone (deleted), and
\* the only write ever pending on an existing row is upsert_refresh's UPDATE of
\* a REFRESH row, which stays a REFRESH row.
C13_OfflineRowsAppendOnly ==
    [][ /\ \A i \in Ids :
              (IsRow(vault[i]) /\ vault[i].token_type = OFFLINE)
                  => (vault'[i] = vault[i] \/ ~IsRow(vault'[i]))
        /\ \A p \in Procs :
              (wr'[p].kind = "put" /\ IsRow(vault'[wr'[p].id])) =>
                  /\ vault'[wr'[p].id].token_type = REFRESH
                  /\ wr'[p].row.token_type = REFRESH
                  /\ loc'[p].upsert # NoUpsert
      ]_vars

\* C13 witness: upsert_refresh is about to commit an UPDATE for a user who also
\* has an OFFLINE row
C13_Witness ==
    \E p \in Procs :
        /\ pc[p] = "done" /\ loc[p].err = NoErr /\ loc[p].upsert # NoUpsert
        /\ wr[p].kind = "put" /\ IsRow(vault[wr[p].id])
        /\ \E i \in RowIds(vault) : /\ vault[i].token_type = OFFLINE
                                   /\ vault[i].user_id = loc[p].upsert.user_id

\* the plaintext a store or upsert_refresh call of task p was given
Plaintext(l) == IF l.upsert # NoUpsert THEN l.upsert.token ELSE l.response.refresh_token

\* C14: with requests served one after the other, when a store or an
\* upsert_refresh that was given plaintext T commits, retrieve_and_decrypt of the
\* id it returned gives that row together with exactly T; every row of the
\* vault that holds material keeps decrypting to the plaintext whose hash was
\* stored with it; and a
\* later request that retrieves a row by id (get_access_token,
\* revoke_offline_token) holds that plaintext.
C14_VaultRoundTrip ==
    [][ /\ \A p \in Procs :
              (Succeeds(p) /\ (StoresOffline(p) \/ UpsertReturns(p))) =>
                  retrieve_and_decrypt(vault', loc[p].new_id)
                      = Found(loc[p].new_id, vault'[loc[p].new_id], Plaintext(loc[p]))
        /\ \A i \in RowIds(vault') :
              LET r == retrieve_and_decrypt(vault', i) IN
              ~NoMaterial(vault'[i]) =>
                  r.ok /\ r.entry = vault'[i] /\ hash_token(r.token) = vault'[i].token_hash
        /\ \A p \in Procs :
              ( /\ loc'[p].op \in {"get_access_token", "revoke_offline_token"}
                /\ loc'[p].entry_id # NoId ) =>
                  /\ loc'[p].entry_id = loc'[p].id
                  /\ hash_token(loc'[p].decrypted_token) = loc'[p].entry.token_hash
      ]_vars

\* C14 witness: get_access_token has retrieved and decrypted a row that an
\* upsert_refresh of an earlier request of this run wrote
C14_Witness ==
    \E p \in Procs :
        /\ loc[p].op = "get_access_token" /\ loc[p].entry_id # NoId
        /\ loc[p].entry.token_type = REFRESH
        /\ loc[p].entry \notin {LeftRefresh}
        /\ loc[p].decrypted_token \in Tokens

\* state tokens parse_ack_state must refuse: signed with another key, rewritten
\* after signing, or lacking user_id or session_state_id
BadStateTokens ==
    LET good == {make_ack_state(u, s) : u \in Users, s \in Sessions} IN
    {StateToken(u, s, OtherKey) : u \in Users, s \in Sessions}
    \cup ({Tampered(t, u, s) : t \in good, u \in Users, s \in Sessions} \ good)
    \cup ({make_ack_state(u, s) : u \in Users \cup {None}, s \in Sessions \cup {None}}
              \ good)

\* C15: parse_ack_state(make_ack_state(U, S)) returns exactly {user_id: U,
\* session_state_id: S}; a token signed with a different secret, or whose
\* payload was changed after signing, or that lacks user_id or
\* session_state_id, fails with InvalidStateTokenError (invalid_ack_state), and
\* a callback that carries such a token ends with that kind and stores nothing.
C15_AckStateRoundTrip ==
    /\ \A u \in Users, s \in Sessions, expired \in BOOLEAN :
          /\ parse_ack_state(make_ack_state(u, s), expired) = NoErr
          /\ AckStateTokenPayload(make_ack_state(u, s))
                 = [user_id |-> u, session_state_id |-> s]
    /\ \A t \in BadStateTokens, expired \in BOOLEAN :
          /\ parse_ack_state(t, expired).cls = "InvalidStateTokenError"
          /\ parse_ack_state(t, expired).code = "invalid_ack_state"
    /\ \A p \in Procs :
          (loc[p].op = "offline_token_callback" /\ loc[p].state \in BadStateTokens) =>
              /\ pc[p] = "done" /\ wr[p] = NoWrite
              /\ ExternalError(loc[p].err).code
                     \in {"invalid_ack_state", "keycloak_callback_error"}
    /\ \A p \in Procs :
          (loc[p].op = "offline_token_callback" /\ pc[p] = "callback_store") =>
              loc[p].state \in issued

\* C15 witness: a callback carrying an issued token whose payload was rewritten
\* for another user has been refused as an invalid state token
C15_Witness ==
    \E p \in Procs :
        /\ pc[p] = "done" /\ loc[p].op = "offline_token_callback"
        /\ loc[p].state.key = Secret
        /\ loc[p].state.signed # <<loc[p].state.user_id, loc[p].state.session_state_id>>
        /\ loc[p].err.code = "invalid_ack_state"

EndsInError(p) == pc[p] = "done" /\ loc[p].err # NoErr

\* C17: when an IdP call fails, the error result the caller sees does not
\* contain the provider's status code or raw response body.
C17_ProviderDetailNotEchoed ==
    \A p \in Procs :
        (EndsInError(p) /\ loc[p].err.code \in {"keycloak_error", "keycloak_callback_error"})
            => ExternalError(loc[p].err).details # "provider"

\* C18: auth_error_guard(None, M): a domain error raised in the guarded block
\* is re-raised as AuthManagerError with the original error's code and with
\* message M in place of the original message (get_access_token's two blocks).
C18_RewrapOverridesMessage ==
    \A p \in Procs :
        ( /\ EndsInError(p) /\ loc[p].op = "get_access_token" /\ loc[p].validated
          /\ IsDomain(loc[p].err) /\ loc[p].upsert = NoUpsert ) =>
            /\ loc[p].err.cls = "AuthManagerError"
            /\ loc[p].entry_id = NoId =>
                  /\ loc[p].err.code = "token_not_found"
                  /\ loc[p].err.message = "No data found for this persistent token id"
            /\ loc[p].entry_id # NoId =>
                  /\ loc[p].err.code = "keycloak_error"
                  /\ loc[p].err.message = "Could not generate new access token"

\* domain errors a guarded block can raise: any class, its default or another
\* code, with or without provider detail
RaisedDomainErrors ==
    {ErrWith(cls, "original message", code, details) :
        cls \in DomainClasses,
        code \in {"error", "keycloak_error", "token_not_found", "entity_not_found"},
        details \in {"none", "provider"}}

\* auth_error_guard(K, M) on every raised domain error: K, M, K's default
\* code, no detail
FixedRewrapOfEveryError ==
    \A K \in DomainClasses, e \in RaisedDomainErrors :
        auth_error_guard(K, "M", e) = ErrWith(K, "M", DefaultCode(K), "none")

\* C19: auth_error_guard(K, M): every domain error raised in the guarded
\* block is re-raised as K with message M, K's default code and no detail of
\* the original error; in revoke_offline_token a failure in the retrieve block
\* reaches the caller as TokenNotFoundError and one in the revoke block as
\* KeycloakError, both without detail; and a request whose blocks raise nothing
\* ends normally with its delete and its session revocation kept.
C19_FixedRewrapMasksError ==
    /\ FixedRewrapOfEveryError
    /\ \A p \in Procs :
          ( /\ pc[p] = "done" /\ loc[p].op = "revoke_offline_token"
            /\ loc[p].validated /\ IsDomain(loc[p].err) ) =>
              /\ loc[p].entry_id = NoId =>
                    loc[p].err = ErrWith("TokenNotFoundError", "No offline token was found",
                                         "token_not_found", "none")
              /\ loc[p].entry_id # NoId =>
                    loc[p].err = ErrWith("KeycloakError", "Revoke session failed",
                                         "keycloak_error", "none")
              /\ ExternalError(loc[p].err).details = "none"
    /\ \A p \in Procs :
          (pc[p] = "done" /\ loc[p].op = "revoke_offline_token" /\ loc[p].err = NoErr) =>
              /\ loc[p].deleted /\ wr[p] = Del(loc[p].entry_id)
              /\ loc[p].session_revoked <=> ~loc[p].had_shared_session
              /\ loc[p].session_revoked =>
                    loc[p].entry.session_state_id \in revoked

\* C19 witness: the IdP refused the session revocation and the request ends
\* with the fixed KeycloakError of the guard
C19_Witness ==
    \E p \in Procs :
        /\ pc[p] = "done" /\ loc[p].op = "revoke_offline_token"
        /\ loc[p].checked /\ ~loc[p].had_shared_session
        /\ loc[p].err.cls = "KeycloakError"
        /\ loc[p].err.message = "Revoke session failed"

\* C20: a failure that is none of the taxonomy kinds reaches the caller as
\* internal_error (500), and its original message is in no field of the result.
C20_UnclassifiedFailureHidden ==
    \A p \in Procs :
        (EndsInError(p) /\ ~IsDomain(loc[p].err)) =>
            LET out == ExternalError(loc[p].err) IN
            /\ out.code = "internal_error" /\ out.status = 500
            /\ out.error = "Internal server error"
            /\ loc[p].err.message \notin {out.error, out.reason, out.details}

\* C21: a failure of an IdP gateway operation reaches the gateway's caller as
\* KeycloakError, whatever failed: a request whose introspection call raised
\* ends with a KeycloakError, and no request ends with an exception of the
\* keycloak client or of the HTTP client.
C21_GatewayRaisesOnlyIdPError ==
    \A p \in Procs :
        pc[p] = "done" =>
            /\ loc[p].info.failed => loc[p].err.cls = "KeycloakError"
            /\ loc[p].err.cls \notin SdkExceptions \cup {"ConnectError"}

\* the requests that start with retrieve_and_decrypt(id)
RetrievesById == {"get_access_token", "revoke_offline_token"}

\* C22: retrieve_and_decrypt(id) fails with TokenNotFoundError (token_not_found,
\* 404) when no row has that id and when the row lacks encrypted_token or iv,
\* with nothing decrypted; otherwise it returns the row and its plaintext. A
\* request whose retrieve_and_decrypt failed ends with code token_not_found,
\* holds no plaintext and has written nothing to the vault.
C22_RetrieveAndDecrypt ==
    /\ \A id \in Ids :
          LET r == retrieve_and_decrypt(vault, id) IN
          IF ~IsRow(vault[id]) \/ NoMaterial(vault[id])
          THEN /\ ~r.ok /\ r.token = None /\ r.entry = NoRow
               /\ r.err.cls = "TokenNotFoundError"
               /\ r.err.code = "token_not_found" /\ StatusOf(r.err.code) = 404
          ELSE /\ r.ok /\ r.err = NoErr
               /\ r.id = id /\ r.entry = vault[id]
               /\ hash_token(r.token) = vault[id].token_hash
    /\ \A p \in Procs :
          ( /\ loc[p].op \in RetrievesById /\ loc[p].validated
            /\ pc[p] \notin {"access_retrieve", "revoke_retrieve"} ) =>
              IF ~IsRow(vault[loc[p].id]) \/ NoMaterial(vault[loc[p].id])
              THEN /\ pc[p] = "done" /\ loc[p].err.code = "token_not_found"
                   /\ loc[p].entry_id = NoId /\ loc[p].decrypted_token = None
                   /\ wr[p] = NoWrite
              ELSE /\ loc[p].entry_id = loc[p].id
                   /\ hash_token(loc[p].decrypted_token) = loc[p].entry.token_hash

\* C22 witness: a request for the id of a row without material ended not found
C22_Witness ==
    \E p \in Procs :
        /\ pc[p] = "done" /\ loc[p].op \in RetrievesById /\ loc[p].validated
        /\ IsRow(vault[loc[p].id]) /\ NoMaterial(vault[loc[p].id])
        /\ loc[p].err.code = "token_not_found"

\* the token type each request asks retrieve_or_raise_by_session_state_id for
TypeSought(op) == IF op = "make_offline_token" THEN OFFLINE ELSE REFRESH

\* the rows of vault v with session s and type token_type
RowsOfSession(v, s, token_type) ==
    {i \in RowIds(v) : v[i].session_state_id = s /\ v[i].token_type = token_type}

\* C23: retrieve_or_raise_by_session_state_id(session, type) fails with the
\* kind retrieve_and_decrypt uses for an unknown id (token_not_found, 404) when
\* no row matches: a make_offline_token or make_new_refresh_token_id request
\* for a session that has no row of the type ends with that kind.
C23_NoMatchIsNotFound ==
    \A p \in Procs :
        ( /\ pc[p] = "done" /\ loc[p].validated
          /\ loc[p].op \in {"make_offline_token", "make_new_refresh_token_id"}
          /\ RowsOfSession(vault, loc[p].info.sid, TypeSought(loc[p].op)) = {} ) =>
            /\ loc[p].err.code = "token_not_found"
            /\ ExternalError(loc[p].err).status = 404

\* the rows of vault v of user user_id and type token_type
RowsOfUser(v, user_id, token_type) ==
    {i \in RowIds(v) : v[i].user_id = user_id /\ v[i].token_type = token_type}

\* result r is the one row of ids together with its plaintext
GivesEntryOf(r, v, ids) ==
    /\ r.ok /\ r.err = NoErr /\ r.id \in ids /\ r.entry = v[r.id]
    /\ hash_token(r.token) = v[r.id].token_hash

\* the ids hold one row, and it has its material
OneEntry(v, ids) == Cardinality(ids) = 1 /\ \A i \in ids : ~NoMaterial(v[i])

\* C24: retrieve_by_session_state_id(session, type) and get_by_user_id(user,
\* type) return None, raising nothing, when no row matches, and return the
\* entry with its plaintext when one row matches.
C24_ReadsReturnNoneOrEntry ==
    /\ \A session \in Sessions, token_type \in TokenType :
          LET ids == RowsOfSession(vault, session, token_type)
              r   == retrieve_by_session_state_id(vault, session, token_type)
          IN /\ ids = {} => r = ReturnsNone
             /\ OneEntry(vault, ids) => GivesEntryOf(r, vault, ids)
    /\ \A user \in Users, token_type \in TokenType :
          LET ids == RowsOfUser(vault, user, token_type)
              r   == get_by_user_id(vault, user, token_type)
          IN /\ ids = {} => r = ReturnsNone
             /\ OneEntry(vault, ids) => GivesEntryOf(r, vault, ids)

\* what a read reports: whether it completed, whether it gave an entry, and the
\* class and code of the error it raised
Outcome(r) == [ok |-> r.ok, entry |-> r.id # NoId, cls |-> r.err.cls, code |-> r.err.code]

\* vault v without row i
Without(v, i) == [v EXCEPT ![i] = NoRow]

\* C25: each read of the vault service reports, for a row that lacks
\* encrypted_token or iv and is the only match, the outcome it reports when no
\* row matches.
C25_NoMaterialIsNoMatch ==
    \A i \in RowIds(vault) :
        NoMaterial(vault[i]) =>
            LET row  == vault[i]
                gone == Without(vault, i)
            IN /\ Outcome(retrieve_and_decrypt(vault, i))
                     = Outcome(retrieve_and_decrypt(gone, i))
               /\ RowsOfSession(vault, row.session_state_id, row.token_type) = {i} =>
                     /\ Outcome(retrieve_or_raise_by_session_state_id(
                                    vault, row.session_state_id, row.token_type))
                           = Outcome(retrieve_or_raise_by_session_state_id(
                                    gone, row.session_state_id, row.token_type))
                     /\ Outcome(retrieve_by_session_state_id(
                                    vault, row.session_state_id, row.token_type))
                           = Outcome(retrieve_by_session_state_id(
                                    gone, row.session_state_id, row.token_type))
               /\ RowsOfUser(vault, row.user_id, row.token_type) = {i} =>
                     Outcome(get_by_user_id(vault, row.user_id, row.token_type))
                         = Outcome(get_by_user_id(gone, row.user_id, row.token_type))

\* ids are handed out in creation order: the row created last has the greatest
Latest(ids) == CHOOSE i \in ids : \A j \in ids : j <= i

\* the rows retrieve_by_user_id(user_id, token_type) selects
Matching(v, user_id, token_type) ==
    {i \in RowIds(v) : v[i].user_id = user_id /\ TypeMatches(v[i], token_type)}

\* C26: retrieve_by_user_id(user, type) returns the matching row created last
\* whenever one or more rows match, and None when no row matches.
C26_LatestRowOfUser ==
    \A user \in Users, token_type \in TokenType \cup {None} :
        LET ids == Matching(vault, user, token_type) IN
        retrieve_by_user_id(vault, user, token_type)
            = IF ids = {} THEN Nothing ELSE One(Latest(ids))

\* task p's delete(id) runs in this step
DeleteRuns(p) == pc[p] = "revoke_delete" /\ pc'[p] = "revoke_check"

\* delete(id) of task p returns true exactly if row id is there when it runs,
\* and writes nothing but the removal of that row; when a request whose delete
\* returned true commits, that row and no other leaves the vault
DeleteRemovesTheRow(p) ==
    LET id == loc[p].entry_id IN
    /\ DeleteRuns(p) =>
          /\ loc'[p].deleted <=> IsRow(View(p)[id])
          /\ wr'[p] = IF loc'[p].deleted THEN Del(id) ELSE wr[p]
          /\ vault' = vault
    /\ (Succeeds(p) /\ loc[p].op = "revoke_offline_token") =>
          IF loc[p].deleted
          THEN IsRow(vault[id]) /\ vault' = Without(vault, id)
          ELSE ~IsRow(vault[id]) /\ vault' = vault

\* task q's delete(id) waits while task p, whose delete(id) returned true, ends
WaitsBehind(q, p) ==
    /\ Finishes(p) /\ loc[p].op = "revoke_offline_token" /\ loc[p].deleted
    /\ pc[q] = "revoke_delete" /\ loc[q].entry_id = loc[p].entry_id

\* C27 as stated: delete(id) returns true if and only if row id existed when
\* it ran and removes only that row, and of two overlapping deletes of one id
\* exactly one returns true: when the first ends, the row is gone for the second.
C27_OneOfTwoDeletesReturnsTrue ==
    [][ \A p \in Procs :
          /\ DeleteRemovesTheRow(p)
          /\ \A q \in Procs \ {p} :
                WaitsBehind(q, p) => ~IsRow(vault'[loc[p].entry_id])
      ]_vars

\* C27: delete(id) returns true if and only if row id existed when it ran and
\* removes only that row; a delete that follows a committed delete of the id
\* returns false, so of two overlapping deletes that both commit exactly one
\* returns true; after a delete that is rolled back the row is still there.
C27_DeleteReturnsRowExisted ==
    [][ \A p \in Procs :
          /\ DeleteRemovesTheRow(p)
          /\ \A q \in Procs \ {p} :
                WaitsBehind(q, p) =>
                    (IsRow(vault'[loc[p].entry_id]) <=> loc[p].err # NoErr)
      ]_vars

\* C27 witness: the second of two overlapping deletes of one id returned false
C27_Witness ==
    \E q \in Procs :
        /\ loc[q].op = "revoke_offline_token" /\ pc[q] = "revoke_check"
        /\ ~loc[q].deleted /\ ~IsRow(vault[loc[q].entry_id])

\* C28: with requests served one after the other, an upsert_refresh for a user
\* who has a REFRESH row returns the id of that row, which is replaced in
\* place: the user's REFRESH row has the same id before and after, so each
\* later upsert_refresh for the user returns the id the earlier one returned.
C28_UpsertReturnsSameId ==
    [][ \A p \in Procs :
          UpsertReturns(p) =>
              LET ids == RefreshRowsOf(vault, loc[p].upsert.user_id) IN
              /\ RefreshRowsOf(vault', loc[p].upsert.user_id) = {loc[p].new_id}
              /\ ids # {} => ids = {loc[p].new_id}
      ]_vars

\* C28 witness: the second upsert_refresh of a run returns the id of the row
\* that the first one created
C28_Witness ==
    \E p \in Procs :
        /\ pc[p] = "done" /\ loc[p].err = NoErr /\ loc[p].upsert # NoUpsert
        /\ ops = 2 /\ loc[p].upsert.user_id = "u2"
        /\ loc[p].existing = 1 /\ loc[p].new_id = 1
        /\ RefreshRowsOf(vault, loc[p].upsert.user_id) = {1}

\* C29: overlapping upsert_refresh calls for one user end last-writer-wins:
\* whenever one of them commits (the row it read, if any, not having been
\* deleted meanwhile), get_by_user_id(user, REFRESH) gives the token of that
\* call, whether or not the user had a REFRESH row before.
C29_LastWriterWins ==
    [][ \A p \in Procs :
          ( /\ UpsertReturns(p)
            /\ loc[p].existing # NoId => IsRow(vault[loc[p].existing]) ) =>
              LET r == get_by_user_id(vault', loc[p].upsert.user_id, REFRESH) IN
              /\ r.ok /\ r.id = loc[p].new_id
              /\ r.token = loc[p].upsert.token
      ]_vars

\* get_access_token(id) of task p returns in this step, the IdP having answered
\* with a rotated refresh token
RotatedReturns(p) ==
    /\ Succeeds(p) /\ loc[p].op = "get_access_token"
    /\ loc[p].response.refresh_token # None

\* C30: with requests served one after the other, a get_access_token(id) whose
\* refresh was answered with a rotated refresh token upserts it into the
\* REFRESH row of the owner of entry id (a new row if the owner had none), with
\* the session of the IdP's answer and the attributes of the entry, whatever
\* the type of entry id; no other row changes, so an OFFLINE entry id keeps its
\* token; without a rotated token nothing is written.
C30_RotatedTokenGoesToRefreshRow ==
    [][ \A p \in Procs :
          /\ RotatedReturns(p) =>
                LET entry == loc[p].entry
                    rid   == loc[p].new_id
                    had   == RefreshRowsOf(vault, entry.user_id)
                IN /\ entry = vault[loc[p].id]
                   /\ RefreshRowsOf(vault', entry.user_id) = {rid}
                   /\ WrittenBy(vault'[rid],
                                Upsert(entry.user_id, loc[p].response.refresh_token,
                                       loc[p].response.session_state, entry.attributes))
                   /\ IF had = {} THEN ~IsRow(vault[rid]) ELSE had = {rid}
                   /\ \A i \in Ids \ {rid} : vault'[i] = vault[i]
                   /\ entry.token_type = OFFLINE =>
                         rid # loc[p].id /\ vault'[loc[p].id] = entry
          /\ ( /\ Succeeds(p) /\ loc[p].op = "get_access_token"
               /\ loc[p].response.refresh_token = None ) => vault' = vault
      ]_vars

\* C30 witness: a fetch through an OFFLINE entry whose owner had no REFRESH row
\* is about to return, the rotated token written to a new row
C30_Witness ==
    \E p \in Procs :
        /\ pc[p] = "done" /\ loc[p].err = NoErr /\ loc[p].op = "get_access_token"
        /\ loc[p].entry.token_type = OFFLINE
        /\ loc[p].response.refresh_token # None
        /\ loc[p].response.session_state # loc[p].entry.session_state_id
        /\ loc[p].existing = NoId /\ loc[p].new_id \notin {NoId, loc[p].id}
        /\ wr[p].kind = "put"

\* the introspection made for task p's request reported active with sub and sid
GateOk(p) ==
    /\ loc[p].credentials = "bearer" /\ ~loc[p].info.failed
    /\ loc[p].info.active /\ loc[p].info.sub # None /\ loc[p].info.sid # None

\* C31: in each gated operation, nothing is read from or written to the vault
\* and no other IdP call is made unless the introspection made for that same
\* request reported active with sub and sid: a request whose own introspection
\* did not is over with the gate's error, its locals untouched and nothing
\* written, whatever an earlier request was granted.
C31_NothingBeforeTheGate ==
    \A p \in Procs :
        loc[p].op \in GatedOps =>
            IF GateOk(p)
            THEN loc[p].validated
            ELSE /\ pc[p] = "done" /\ wr[p] = NoWrite
                 /\ loc[p].err # NoErr
                 /\ loc[p] = [Idle EXCEPT !.op = loc[p].op,
                                          !.credentials = loc[p].credentials,
                                          !.info = loc[p].info,
                                          !.err = get_validated_token(loc[p].credentials,
                                                                      loc[p].info)]

\* C31 witness: after a request of u2 was let through and wrote a row, a
\* request with an inactive bearer token is turned away
C31_Witness ==
    \E p \in Procs :
        /\ pc[p] = "done" /\ loc[p].op \in GatedOps /\ ops = 2
        /\ loc[p].credentials = "bearer" /\ ~loc[p].info.failed /\ ~loc[p].info.active
        /\ loc[p].err.cls = "TokenNotActiveError"
        /\ \E i \in RowIds(vault) : vault[i].user_id = "u2"

\* task p's request is one that stores an OFFLINE row, and every condition the
\* handler puts before its store(OFFLINE) was met in this request
MayStoreOffline(p) ==
    LET l == loc[p] IN
    /\ l.response.refresh_token # None /\ ~l.response.failed
    /\ \/ /\ l.op = "offline_token_callback"
          /\ l.error = None /\ l.error_description = None
          /\ l.state \in issued /\ parse_ack_state(l.state, l.expired) = NoErr
       \/ /\ l.op = "make_offline_token" /\ GateOk(p)
          /\ l.entry_id # NoId /\ l.entry.token_type = OFFLINE
          /\ l.entry.session_state_id = l.info.sid
          /\ hash_token(l.decrypted_token) = l.entry.token_hash

\* the callback of task p is over without the code having been exchanged
EndsBeforeExchange(p) ==
    /\ pc[p] = "done" /\ loc[p].response = NoResponse /\ wr[p] = NoWrite
    /\ loc[p].err.code \in {"keycloak_callback_error", "invalid_ack_state"}

\* C32: an OFFLINE row appears in the vault only when a consent callback or a
\* make_offline_token commits, the IdP having returned a refresh token in that
\* request; for the callback only with neither error nor error_description
\* set and a verified state token (else it ends without exchanging the code),
\* for make_offline_token only after an OFFLINE entry of the caller's session
\* was decrypted. A request that fails stores no row, and no OFFLINE row is
\* ever rewritten.
C32_OfflineRowsOnlyFromConsentOrMint ==
    [][ /\ \A i \in Ids :
              (vault'[i] # vault[i] /\ OFFLINE \in {vault[i].token_type, vault'[i].token_type}) =>
                  \/ /\ ~IsRow(vault[i])
                     /\ \E p \in Procs : /\ Succeeds(p) /\ MayStoreOffline(p)
                                          /\ wr[p] = Put(i, vault'[i])
                  \/ /\ ~IsRow(vault'[i])
                     /\ \E p \in Procs : /\ Succeeds(p) /\ wr[p] = Del(i)
                                          /\ loc[p].op = "revoke_offline_token"
        /\ \A p \in Procs :
              /\ (Finishes(p) /\ loc[p].err # NoErr) => vault' = vault
              /\ ( /\ loc'[p].op = "offline_token_callback"
                   /\ \/ loc'[p].error # None \/ loc'[p].error_description # None
                      \/ parse_ack_state(loc'[p].state, loc'[p].expired) # NoErr )
                  => EndsBeforeExchange(p)'
              /\ (wr'[p].kind = "put" /\ wr'[p].row.token_type = OFFLINE) => MayStoreOffline(p)'
      ]_vars

\* C32 witness: a make_offline_token that decrypted an OFFLINE entry of the
\* caller's session and was given a refresh token holds its new row
C32_Witness ==
    \E p \in Procs :
        /\ pc[p] = "done" /\ loc[p].err = NoErr /\ loc[p].op = "make_offline_token"
        /\ MayStoreOffline(p)
        /\ wr[p].kind = "put" /\ wr[p].row.token_type = OFFLINE
        /\ wr[p].row.attributes = AttrFrom(loc[p].entry_id)

\* the rows of vault v that reference session s
RowsReferencing(v, s) == {i \in RowIds(v) : v[i].session_state_id = s}

\* C33: revoke_offline_token requests on the entries of session s1, in any
\* interleaving: once they are all over and no row references s1 any more
\* (the rows that were left all referenced it and only a successful revoke
\* removes a row), revoke_session(s1) has been called.
C33_SessionRevokedWithLastEntry ==
    ( /\ \A p \in Procs : pc[p] = "idle"
      /\ nextId > 1
      /\ RowsReferencing(vault, "s1") = {} ) => "s1" \in revoked

\* C34: whatever upsert_refresh calls have overlapped, once requests are over
\* the vault is one in which upsert_refresh(U, ...) and get_by_user_id(U,
\* REFRESH) do not fail over the number of REFRESH rows of U: the read that
\* upsert_refresh starts with finds one row or none, and get_by_user_id does
\* not raise MultipleResultsFound.
C34_RefreshReadsNeverAmbiguous ==
    (\A p \in Procs : pc[p] = "idle") =>
        \A user \in Users :
            /\ retrieve_by_user_id(vault, user, REFRESH).kind \in {"one", "none"}
            /\ get_by_user_id(vault, user, REFRESH).err.cls # "MultipleResultsFound"

\* task p, let through the gate as one user, asked for the entry id of a row
\* of another user, and is past its retrieve_and_decrypt(id)
ForeignEntry(p) ==
    /\ loc[p].op \in RetrievesById /\ loc[p].validated
    /\ pc[p] \notin {"access_retrieve", "revoke_retrieve"}
    /\ IsRow(vault[loc[p].id]) /\ ~NoMaterial(vault[loc[p].id])
    /\ vault[loc[p].id].user_id # loc[p].info.sub

\* C35: get_access_token(id) and revoke_offline_token(id) never compare the
\* owner of entry id with the caller: with requests served one after the
\* other, a caller with an active bearer token who names the id of another
\* user's entry gets that entry decrypted and is refused nothing on account of
\* the owner (the only failures left are the IdP's); when the request
\* succeeds the revoke has removed the other user's row and the fetch answers
\* an access token.
C35_NoOwnerCheck ==
    [][ \A p \in Procs :
          ForeignEntry(p) =>
              /\ loc[p].entry_id = loc[p].id
              /\ loc[p].entry = vault[loc[p].id]
              /\ loc[p].decrypted_token \in Tokens
              /\ loc[p].err # NoErr =>
                    \/ loc[p].err.code = "keycloak_error"
                    \/ loc[p].err.cls \in SdkExceptions \cup {"ConnectError"}
              /\ (Succeeds(p) /\ loc[p].op = "revoke_offline_token") =>
                    /\ OkData(loc[p]).token_deleted
                    /\ vault' = Without(vault, loc[p].id)
              /\ (Succeeds(p) /\ loc[p].op = "get_access_token") =>
                    OkData(loc[p]).access_token = "access"
      ]_vars

\* C35 witness: user u2's revoke of an entry of u1 is about to answer, the row
\* deleted and the session of u1 revoked upstream
C35_Witness ==
    \E p \in Procs :
        /\ ForeignEntry(p) /\ pc[p] = "done" /\ loc[p].err = NoErr
        /\ loc[p].op = "revoke_offline_token"
        /\ loc[p].info.sub = "u2" /\ loc[p].entry.user_id = "u1"
        /\ loc[p].deleted /\ loc[p].session_revoked
        /\ loc[p].entry.session_state_id \in revoked

RevokingNothing(p) ==
    /\ loc[p].op = "revoke_offline_token" /\ loc[p].validated
    /\ ~IsRow(vault[loc[p].id]) \/ NoMaterial(vault[loc[p].id])

\* C37: with requests served one after the other, revoke_offline_token(id) for
\* an id that names no row, or a row without token material, fails with
\* TokenNotFoundError (token_not_found, 404) and the fixed message; no delete,
\* no shared-session check and no revoke_session call is made: the vault and
\* the revoked sessions stay as they were.
C37_RevokeOfNothingChangesNothing ==
    [][ \A p \in Procs :
          RevokingNothing(p) =>
              /\ vault' = vault /\ revoked' = revoked /\ wr'[p] = NoWrite
              /\ pc'[p] \in {"done", "idle"}
              /\ pc'[p] = "done" =>
                    /\ loc'[p].err = ErrWith("TokenNotFoundError", "No offline token was found",
                                             "token_not_found", "none")
                    /\ ExternalError(loc'[p].err).status = 404
                    /\ ExternalError(loc'[p].err).error = "No offline token was found"
                    /\ ~loc'[p].deleted /\ ~loc'[p].checked /\ ~loc'[p].session_revoked
                    /\ loc'[p].entry_id = NoId
      ]_vars

\* C37 witness: the revoke of a row without material has ended not found, the
\* row still in the vault
C37_Witness ==
    \E p \in Procs :
        /\ RevokingNothing(p) /\ pc[p] = "done"
        /\ IsRow(vault[loc[p].id])
        /\ loc[p].err.message = "No offline token was found"
        /\ revoked = {}

\* row holds ciphertext and iv, the ciphertext opens under that iv, and
\* token_hash is the hash of the plaintext it opens to
Sealed(row) ==
    /\ ~NoMaterial(row)
    /\ row.encrypted_token.iv = row.iv
    /\ decrypt_token(row.encrypted_token, row.iv) \in Tokens
    /\ row.token_hash = hash_token(decrypt_token(row.encrypted_token, row.iv))

====
